---- MODULE Spec2Model ----
(***************************************************************************)
(* ttail: the time-based offset search of TimeSearcher over a LineBuffer   *)
(* and a TimeParser.                                                       *)
(*                                                                         *)
(* A file is a sequence of bytes.  A byte is an integer: NL is '\n', a     *)
(* positive byte t stands for a piece of text that the configured pattern  *)
(* matches and the layout parses to the time t (in seconds), BADTS for a   *)
(* piece of text that the pattern matches and the layout rejects, TXT for  *)
(* any other byte and ZERO for the zero byte of a freshly made buffer.     *)
(* Go offsets are 0-based: the Go slice s[a:b] is SubSeq(s, a+1, b).       *)
(***************************************************************************)
EXTENDS Integers, Sequences, FiniteSets, TLC

\* ------------------------------------------------------------------ bounds

\* longest file, in bytes
MaxLen == 4
\* largest timestamp of a line, in seconds
MaxTime == 2
\* largest read window (Options.BufSize)
MaxBuf == 4
\* largest Options.StepsLimit
MaxSteps == 2
\* largest Options.Duration, in seconds
MaxDur == 1
\* FindPosition calls made on one session
MaxCalls == 2
\* the read counter saturates here
MaxReads == 3
\* longest file of the runs checked for termination, in bytes
MaxLiveLen == 2
\* most bytes appended to a file between two calls
MaxGrow == 2
\* log files the TUI monitors
MaxFiles == 2
\* update commands of one log file running at the same time
MaxInFlight == 2
\* lines of the sample autoDetectLogType takes of a file (it tests the first five)
MaxSampleLines == 6
\* longest line given to the TSKV parser, in pieces of text
MaxLineLen == 7
\* the pieces of text a TSKV timestamp is made of (19 bytes in the source)
TsLen == 2
\* longest file read through a line buffer alone, in bytes, and the largest
\* window of that buffer
MaxBufFileLen == 5
MaxBufWindow == 2

\* ------------------------------------------------------------------- bytes

NL == 0
TXT == -1
BADTS == -2
ZERO == -3
\* '\t' and the text "timestamp=" of a TSKV line
HT == -4
KEY == -5

Min(a, b) == IF a < b THEN a ELSE b
Max(a, b) == IF a > b THEN a ELSE b

\* bytes.IndexByte(s, c): the 0-based index of the first c in s, or -1
IndexByte(s, c) ==
  IF \E i \in 1..Len(s) : s[i] = c
  THEN (CHOOSE i \in 1..Len(s) : s[i] = c /\ \A j \in 1..(i - 1) : s[j] # c) - 1
  ELSE -1

\* bytes.LastIndexByte(s, c): the 0-based index of the last c in s, or -1
LastIndexByte(s, c) ==
  IF \E i \in 1..Len(s) : s[i] = c
  THEN (CHOOSE i \in 1..Len(s) : s[i] = c /\ \A j \in (i + 1)..Len(s) : s[j] # c) - 1
  ELSE -1

\* make([]byte, n)
Zeros(n) == [i \in 1..n |-> ZERO]

\* the Go slice s[a:b]
Slice(s, a, b) == SubSeq(s, a + 1, b)

\* copy(dst[at:], src): dst with src written over it from index at
Overwrite(dst, at, src) ==
  [i \in 1..Len(dst) |->
     IF i > at /\ i <= at + Len(src) THEN src[i - at] ELSE dst[i]]

\* ------------------------------------------------------------- byte source

\* (*os.File).ReadAt(p, off) with len(p) = plen: the bytes read and the error.
\* A read that fails with an I/O error delivers nothing.
ReadAt(f, plen, off, fail) ==
  IF fail THEN [n |-> 0, bytes |-> <<>>, err |-> "IOERR"]
  ELSE LET n == IF off >= Len(f) THEN 0 ELSE Min(plen, Len(f) - off)
       IN  [n |-> n,
            bytes |-> Slice(f, off, off + n),
            err |-> IF n < plen THEN "EOF" ELSE "nil"]

\* ------------------------------------------------------------- TimeParser

\* the bytes of a line that the pattern matches
IsMatch(b) == b > 0 \/ b = BADTS

\* TimeParser.ParseTime(line): the leftmost match of the pattern, parsed with
\* the layout.  ok is "tm != nil", err is the layout's error.
ParseTime(line) ==
  IF \A i \in 1..Len(line) : ~IsMatch(line[i])
  THEN [ok |-> FALSE, tm |-> 0, err |-> "nil"]
  ELSE LET i == CHOOSE k \in 1..Len(line) :
                  IsMatch(line[k]) /\ \A j \in 1..(k - 1) : ~IsMatch(line[j])
       IN  IF line[i] = BADTS
           THEN [ok |-> FALSE, tm |-> 0, err |-> "parse"]
           ELSE [ok |-> TRUE, tm |-> line[i], err |-> "nil"]

\* the callers' test "err == nil && tm != nil"
Parsed(p) == p.err = "nil" /\ p.ok

\* ------------------------------------------------------------- LineBuffer
\* A LineBuffer is [mem, len, lineStart, lineEnd, discard]: mem is the backing
\* array of lb.data as far as a later reslice can show it, len is len(lb.data).

Data(lb) == SubSeq(lb.mem, 1, lb.len)

\* NewLineBuffer(bufSize)
NewLineBuffer(bufSize) ==
  [mem |-> Zeros(bufSize), len |-> bufSize,
   lineStart |-> -1, lineEnd |-> 0, discard |-> TRUE]

\* a Reset that puts the cursors back and leaves the discard flag as it is
ResetCursorsOnly(lb) == [lb EXCEPT !.lineStart = -1, !.lineEnd = 0]

\* LineBuffer.Reset
Reset(lb) == [lb EXCEPT !.lineStart = -1, !.lineEnd = 0, !.discard = TRUE]

\* the line data[lineStart:lineEnd] of a buffer
LineOf(lb) == Slice(lb.mem, lb.lineStart, lb.lineEnd)

\* an extension of five windows in place of one
ExtensionOfFive(bufSize) == Zeros(5 * bufSize)

\* what ReadLine appends to lb.data to extend it: make([]byte, lb.bufSize)
Extension(bufSize) == Zeros(bufSize)

\* LineBuffer.ReadLine(reader, offset): [lb, line, err, reads, nread]; reads is
\* the number of ReadAt calls and nread the number of bytes they delivered
ReadLine(lb, f, offset, bufSize, fail1, fail2) ==
  LET lb0 == [lb EXCEPT !.mem = SubSeq(lb.mem, 1, bufSize), !.len = bufSize,
                        !.lineStart = -1, !.lineEnd = 0]
      r == ReadAt(f, bufSize, offset, fail1)
  IN
  IF r.err = "IOERR"
  THEN [lb |-> lb0, line |-> <<>>, err |-> "IOERR", reads |-> 1, nread |-> 0]
  ELSE IF r.n = 0
  THEN [lb |-> lb0, line |-> <<>>, err |-> "EOF", reads |-> 1, nread |-> 0]
  ELSE
  LET n == r.n
      mem1 == Overwrite(lb0.mem, 0, r.bytes)
      data1 == SubSeq(mem1, 1, n)
      firstNewline == IndexByte(data1, NL)
      lb1 == [lb0 EXCEPT !.mem = mem1, !.len = n, !.discard = FALSE]
  IN
  IF offset # 0 /\ firstNewline < 0
  THEN [lb |-> lb1, line |-> <<>>, err |-> "EOF", reads |-> 1, nread |-> n]
  ELSE
  LET lineStart == IF offset = 0 THEN 0 ELSE firstNewline + 1
      cursor == IndexByte(Slice(data1, lineStart, n), NL)
  IN
  IF cursor >= 0
  THEN LET lb2 == [lb1 EXCEPT !.lineStart = lineStart, !.lineEnd = lineStart + cursor]
       IN  [lb |-> lb2, line |-> LineOf(lb2), err |-> "nil", reads |-> 1, nread |-> n]
  ELSE
  \* len(lb.data) = n <= bufSize < 4*bufSize: extend by one window and read on
  LET ext == Extension(bufSize)
      more == ReadAt(f, Len(ext), offset + n, fail2)
  IN
  IF n < bufSize * 4 /\ more.err = "IOERR"
  THEN [lb |-> [lb1 EXCEPT !.mem = data1 \o ext, !.len = n + Len(ext),
                           !.lineStart = lineStart],
        line |-> <<>>, err |-> "IOERR", reads |-> 2, nread |-> n]
  ELSE
  LET extended == n < bufSize * 4
      len2 == IF extended THEN n + more.n ELSE n
      memX == IF extended
              THEN Overwrite(data1 \o ext, n, more.bytes)
              ELSE mem1
      mem2 == SubSeq(memX, 1, Max(len2, bufSize))
      data2 == SubSeq(mem2, 1, len2)
      cursor2 == IF extended THEN IndexByte(Slice(data2, lineStart, len2), NL) ELSE -1
      nreads == IF extended THEN 2 ELSE 1
      nread == len2
  IN
  IF cursor2 >= 0
  THEN LET lb2 == [lb1 EXCEPT !.mem = mem2, !.len = len2,
                              !.lineStart = lineStart, !.lineEnd = lineStart + cursor2]
       IN  [lb |-> lb2, line |-> LineOf(lb2), err |-> "nil", reads |-> nreads,
            nread |-> nread]
  ELSE LET lb2 == [lb1 EXCEPT !.mem = mem2, !.len = len2,
                              !.lineStart = lineStart, !.lineEnd = len2]
       IN  IF lineStart < len2
           THEN [lb |-> lb2, line |-> LineOf(lb2), err |-> "nil", reads |-> nreads,
                 nread |-> nread]
           ELSE [lb |-> lb2, line |-> <<>>, err |-> "EOF", reads |-> nreads,
                 nread |-> nread]

\* LineBuffer.NextLine(): [lb, line, err]
NextLine(lb) ==
  IF lb.discard THEN [lb |-> lb, line |-> <<>>, err |-> "EOF"]
  ELSE
  LET lineStart == lb.lineEnd + 1
      lb1 == [lb EXCEPT !.lineStart = lineStart]
  IN
  IF lineStart >= lb.len THEN [lb |-> lb1, line |-> <<>>, err |-> "EOF"]
  ELSE
  LET cursor == IndexByte(Slice(Data(lb), lineStart, lb.len), NL)
  IN
  IF cursor > 0
  THEN LET lb2 == [lb1 EXCEPT !.lineEnd = lineStart + cursor]
       IN  [lb |-> lb2, line |-> LineOf(lb2), err |-> "nil"]
  ELSE [lb |-> lb1, line |-> <<>>, err |-> "EOF"]

\* LineBuffer.FindLastLine(reader, offset): [lb, line, err]
FindLastLine(lb, f, offset, fail) ==
  LET r == ReadAt(f, lb.len, offset, fail)
  IN
  IF r.err = "IOERR" THEN [lb |-> lb, line |-> <<>>, err |-> "IOERR"]
  ELSE IF r.n = 0 THEN [lb |-> lb, line |-> <<>>, err |-> "EOF"]
  ELSE
  LET count == r.n
      lb1 == [lb EXCEPT !.mem = Overwrite(lb.mem, 0, r.bytes)]
      lastNewline == LastIndexByte(SubSeq(lb1.mem, 1, count), NL)
  IN
  IF lastNewline = -1 \/ lastNewline = 0
  THEN [lb |-> lb1, line |-> <<>>, err |-> "EOF"]
  ELSE
  LET secondLastNewline == LastIndexByte(SubSeq(lb1.mem, 1, lastNewline), NL)
      lineStart == IF secondLastNewline = -1 THEN 0 ELSE secondLastNewline + 1
      lb2 == [lb1 EXCEPT !.lineStart = lineStart, !.lineEnd = lastNewline]
  IN
  IF lineStart < lastNewline
  THEN [lb |-> lb2, line |-> LineOf(lb2), err |-> "nil"]
  ELSE [lb |-> lb2, line |-> <<>>, err |-> "EOF"]

\* ------------------------------------------------------------ TimeSearcher

VARIABLES
  file,              \* the bytes of the backing file
  bufSize,           \* Options.BufSize
  stepsLimit,        \* Options.StepsLimit
  duration,          \* Options.Duration
  timeFromLastLine,  \* Options.TimeFromLastLine
  now,               \* what time.Now() returns
  failAt,            \* the read of a call that fails with an I/O error (0: none)
  size,              \* TimeSearcher.size
  fromTime,          \* TimeSearcher.fromTime
  offset,            \* TimeSearcher.offset
  lb,                \* TimeSearcher.buffer
  pc,                \* where the running FindPosition call stands ("idle": none runs)
  up, down,          \* FindPosition's search interval
  scanOff, step,     \* findLastLineTime's offset and step
  reads,             \* ReadAt calls of the current FindPosition call (saturating)
  err,               \* what the last finished FindPosition call returned
  results,           \* the offset and error of every finished FindPosition call
  sink, copied,      \* what the last CopyTo wrote and returned (<<>>, -1: none yet)
  cursor,            \* the position of the file's sequential cursor (Seek, Read)
  reader,            \* the bytes read so far from the reader GetReader returned
  call,              \* the last call of a function outside a search: its input and result
  app                \* the TUI's Model: its log files and the commands in flight

opts == <<bufSize, stepsLimit, duration, timeFromLastLine>>
env == <<file, now, failAt>>
locals == <<up, down, scanOff, step>>
out == <<sink, copied>>
side == <<cursor, reader, call, app>>
searcher == <<size, fromTime, offset, lb, pc, locals, reads, err, results>>
vars == <<file, bufSize, stepsLimit, duration, timeFromLastLine, now, failAt, size,
          fromTime, offset, lb, pc, up, down, scanOff, step, reads, err, results,
          sink, copied, cursor, reader, call, app>>

\* the bytes a file is made of
FileBytes == {NL, TXT, BADTS} \cup (1..MaxTime)

\* every file of at most MaxLen bytes
ShortFiles == UNION {[1..n -> FileBytes] : n \in 0..MaxLen}

\* the file of the lines <<ts[1], NL>>, <<ts[2], NL>>, ...
StampedLines(ts) == [i \in 1..(2 * Len(ts)) |-> IF i % 2 = 1 THEN ts[(i + 1) \div 2] ELSE NL]

\* files of 3 to MaxLen + 1 newline-terminated lines, each with a timestamp, in time order
SortedFiles ==
  {StampedLines(ts) : ts \in {t \in UNION {[1..n -> 1..(MaxTime + 1)] : n \in 3..(MaxLen + 1)} :
                                \A i \in 1..(Len(t) - 1) : t[i] <= t[i + 1]}}

Files == ShortFiles \cup SortedFiles

\* the wall-clock times of a run
NowTimes == {MaxTime, MaxTime + 1}

\* files of the runs checked for termination
LiveFiles == UNION {[1..n -> {NL, TXT, MaxTime}] : n \in 0..MaxLiveLen}

\* no reader has been asked for; no function has been called outside a search;
\* no TUI runs
NoReader == [n |-> -1, bytes |-> <<>>]
NoCall == [fn |-> "none"]
NoApp == [logs |-> <<>>, selectedFile |-> 0, cmds |-> <<>>, msgs |-> {}, quit |-> FALSE,
          panic |-> FALSE, last |-> [type |-> "none"]]

\* NewTimeSearcher(file, opts) on a file of the set F with a window of at most W bytes
NewTimeSearcher(F, W) ==
  /\ file \in F
  /\ bufSize \in 1..W
  /\ stepsLimit \in 1..MaxSteps
  /\ duration \in 0..MaxDur
  /\ timeFromLastLine \in BOOLEAN
  /\ now \in IF timeFromLastLine THEN {MaxTime} ELSE NowTimes
  /\ failAt \in 0..MaxReads
  /\ size = Len(file)
  /\ fromTime = now
  /\ offset = 0
  /\ lb = NewLineBuffer(bufSize)
  /\ pc = "idle"
  /\ up = 0 /\ down = 0 /\ scanOff = 0 /\ step = 0
  /\ reads = 0
  /\ err = "nil"
  /\ results = <<>>
  /\ sink = <<>> /\ copied = -1
  /\ cursor = Len(file)
  /\ reader = NoReader
  /\ call = NoCall
  /\ app = NoApp

Init == NewTimeSearcher(Files, MaxBuf)

\* whether the k-th read from now on fails
Fails(k) == failAt # 0 /\ reads + k = failAt

Count(k) == Min(reads + k, MaxReads)

\* FindPosition returns e with ts.offset = off
Return(e, off) ==
  /\ pc' = "idle"
  /\ err' = e
  /\ offset' = off
  /\ results' = Append(results, [offset |-> off, err |-> e, duration |-> duration])

\* FindPosition without its test for an empty file
IsEmptyFileSkipped == FALSE

\* FindPosition's test for an empty file
IsEmptyFile == size = 0

\* FindPosition, from its entry to the first loop
FindPosition ==
  /\ pc = "idle"
  /\ reader' = NoReader
  /\ UNCHANGED <<cursor, call, app>>
  /\ Len(results) < MaxCalls
  /\ reads' = 0
  /\ sink' = <<>> /\ copied' = -1
  /\ UNCHANGED <<opts, env, size, lb>>
  /\ IF IsEmptyFile
     THEN /\ Return("nil", 0)
          /\ UNCHANGED <<fromTime, locals>>
     ELSE IF timeFromLastLine
     THEN /\ pc' = "lastline"
          /\ scanOff' = Max(size - bufSize, 0)
          /\ step' = stepsLimit
          /\ UNCHANGED <<fromTime, offset, up, down, err, results>>
     ELSE /\ fromTime' = now - duration
          /\ up' = 0 /\ down' = size
          /\ pc' = "coarse"
          /\ UNCHANGED <<offset, scanOff, step, err, results>>

\* FindPosition returning findLastLineTime's io.EOF to its caller
NoReferenceTimeAsError == Return("EOF", offset)

\* FindPosition when findLastLineTime found no timestamp: start from the beginning
NoReferenceTime == Return("nil", 0)

\* the backward scan going on as long as the offset is not negative
ScanUnbounded(off) == off >= 0

\* findLastLineTime's loop condition, after step--: offset >= 0 && step > 0
ScanContinues(off) == off >= 0 /\ step - 1 > 0

\* one iteration of findLastLineTime's loop, and what FindPosition does with
\* the result when the loop ends
findLastLineTime ==
  /\ pc = "lastline"
  /\ UNCHANGED side
  /\ UNCHANGED <<opts, env, size, out>>
  /\ LET r == FindLastLine(lb, file, scanOff, Fails(1))
         p == ParseTime(r.line)
         nextOff == IF scanOff > 0 /\ scanOff < bufSize THEN 0 ELSE scanOff - bufSize
         off2 == IF r.err = "IOERR" THEN scanOff ELSE nextOff
     IN
     /\ lb' = r.lb
     /\ reads' = Count(1)
     /\ IF r.err # "IOERR" /\ Len(r.line) > 0 /\ Parsed(p)
        THEN \* return *tm, nil; lastTime.IsZero() is false of a parsed time
             /\ offset' = scanOff
             /\ fromTime' = p.tm - duration
             /\ up' = 0 /\ down' = size
             /\ pc' = "coarse"
             /\ UNCHANGED <<scanOff, step, err, results>>
        ELSE IF ScanContinues(off2)
        THEN /\ scanOff' = off2
             /\ step' = step - 1
             /\ UNCHANGED <<fromTime, offset, pc, up, down, err, results>>
        ELSE \* return time.Time{}, io.EOF
             /\ NoReferenceTime
             /\ scanOff' = off2
             /\ step' = step - 1
             /\ UNCHANGED <<fromTime, up, down>>

\* the coarse loop going on while the interval is at least one window wide
AtLeastWindow == down - up >= bufSize

\* the condition of FindPosition's coarse loop: (down - up) > ts.opts.BufSize
WiderThanWindow == down - up > bufSize

\* the head of the binary search loop, and the code after it up to preciseFindTime
BinarySearch ==
  /\ pc = "coarse"
  /\ UNCHANGED side
  /\ UNCHANGED <<opts, env, size, fromTime, locals, reads, err, results, out>>
  /\ IF WiderThanWindow
     THEN /\ offset' = up + (down - up) \div 2
          /\ pc' = "probe"
          /\ lb' = lb
     ELSE /\ offset' = up
          /\ lb' = Reset(lb)
          /\ pc' = "refine"

\* the comparison with !tm.After(ts.fromTime) in place of tm.Before(ts.fromTime)
CompareNotAfter(tm) ==
  /\ pc' = "coarse"
  /\ IF tm <= fromTime
     THEN up' = up + (down - up) \div 2 /\ down' = down
     ELSE down' = up + (down - up) \div 2 /\ up' = up
  /\ UNCHANGED <<err, results>>

\* FindPosition's coarse test of a probed time: tm.Before(ts.fromTime)
TooOld(tm) == tm < fromTime

\* FindPosition after findTimeAtOffset(middle) returned tm
Compare(tm) ==
  /\ pc' = "coarse"
  /\ IF TooOld(tm)
     THEN up' = up + (down - up) \div 2 /\ down' = down
     ELSE down' = up + (down - up) \div 2 /\ up' = up
  /\ UNCHANGED <<err, results>>

\* FindPosition returning every error of findTimeAtOffset, io.EOF included
ProbeFailedAlways(e) == Return(e, offset)

\* FindPosition after findTimeAtOffset(middle) returned the error e
ProbeFailed(e) ==
  IF e = "EOF" THEN Return("nil", 0) ELSE Return(e, offset)

\* one iteration of findTimeAtOffset's loop, and what FindPosition does when it returns
findTimeAtOffset ==
  /\ pc = "probe"
  /\ UNCHANGED side
  /\ UNCHANGED <<opts, env, size, fromTime, scanOff, step, out>>
  /\ LET r == ReadLine(lb, file, offset, bufSize, Fails(1), Fails(2))
         p == ParseTime(r.line)
         nx == NextLine(r.lb)
         pn == ParseTime(nx.line)
     IN
     /\ reads' = Count(r.reads)
     /\ IF r.err # "nil"
        THEN ProbeFailed(r.err) /\ lb' = r.lb /\ UNCHANGED <<up, down>>
        ELSE IF Len(r.line) = 0
        THEN /\ offset' = offset + r.lb.lineEnd
             /\ lb' = r.lb
             /\ UNCHANGED <<pc, up, down, err, results>>
        ELSE IF Parsed(p)
        THEN Compare(p.tm) /\ lb' = r.lb /\ UNCHANGED offset
        ELSE IF nx.err = "nil" /\ Len(nx.line) > 0 /\ Parsed(pn)
        THEN Compare(pn.tm) /\ lb' = nx.lb /\ UNCHANGED offset
        ELSE /\ offset' = offset + nx.lb.lineEnd
             /\ lb' = nx.lb
             /\ UNCHANGED <<pc, up, down, err, results>>

\* FindPosition adding the end of the buffer's line and its newline, in place
\* of the line's start
AfterPreciseLineEnd(e, b) ==
  /\ IF e # "nil" /\ e # "EOF"
     THEN Return(e, offset)
     ELSE Return("nil", offset + b.lineEnd + 1)
  /\ lb' = b

\* FindPosition after preciseFindTime returned e with the buffer b
AfterPrecise(e, b) ==
  /\ IF e # "nil" /\ e # "EOF"
     THEN Return(e, offset)
     ELSE Return("nil", offset + b.lineStart)
  /\ lb' = b

\* preciseFindTime's test of a line
InWindow(line) ==
  LET p == ParseTime(line) IN Parsed(p) /\ fromTime - p.tm <= duration

\* preciseFindTime: the NextLine call of an iteration
preciseNextLine ==
  /\ pc = "refine"
  /\ UNCHANGED side
  /\ UNCHANGED <<opts, env, size, fromTime, locals, reads, out>>
  /\ LET nx == NextLine(lb)
     IN
     IF nx.err = "EOF"
     THEN /\ offset' = offset + nx.lb.lineEnd
          /\ lb' = nx.lb
          /\ pc' = "refill"
          /\ UNCHANGED <<err, results>>
     ELSE IF InWindow(nx.line)
     THEN AfterPrecise("nil", nx.lb)
     ELSE lb' = nx.lb /\ UNCHANGED <<offset, pc, err, results>>

\* preciseFindTime: the ReadLine call that follows a NextLine at the end of the buffer
preciseReadLine ==
  /\ pc = "refill"
  /\ UNCHANGED side
  /\ UNCHANGED <<opts, env, size, fromTime, locals, out>>
  /\ LET r == ReadLine(lb, file, offset, bufSize, Fails(1), Fails(2))
     IN
     /\ reads' = Count(r.reads)
     /\ IF r.err # "nil"
        THEN AfterPrecise(r.err, r.lb)
        ELSE IF InWindow(r.line)
        THEN AfterPrecise("nil", r.lb)
        ELSE lb' = r.lb /\ pc' = "refine" /\ UNCHANGED <<offset, err, results>>

\* file.Seek(off, io.SeekCurrent): the position counted from the cursor
SeekCurrent(cur, off) == cur + off

\* file.Seek(off, io.SeekStart): the new position of the cursor at cur
SeekStart(cur, off) == off

\* the bytes k sequential reads of one byte deliver from the position pos
ReadSeq(f, pos, k) == Slice(f, Min(pos, Len(f)), Min(pos + k, Len(f)))

\* CopyTo(w): seek to the offset and copy to the end of the file
CopyTo ==
  /\ pc = "idle"
  /\ LET pos == SeekStart(cursor, offset)
         bytes == ReadSeq(file, pos, Len(file))
     IN  IF pos < 0
         THEN \* Seek fails: return 0, err
              sink' = <<>> /\ copied' = 0 /\ cursor' = cursor
         ELSE sink' = bytes /\ copied' = Len(bytes) /\ cursor' = Max(pos, Len(file))
  /\ UNCHANGED <<opts, env, searcher, reader, call, app>>

\* GetReader(), and the caller reading k bytes from the reader it returns
GetReader ==
  /\ pc = "idle"
  /\ \E k \in 0..Len(file) :
       LET pos == SeekStart(cursor, offset)
           bytes == ReadSeq(file, pos, k)
       IN  IF pos < 0
           THEN reader' = [n |-> 0, bytes |-> <<>>] /\ cursor' = cursor
           ELSE reader' = [n |-> k, bytes |-> bytes] /\ cursor' = pos + Len(bytes)
  /\ UNCHANGED <<opts, env, searcher, out, call, app>>

\* NewTimeSearcher on the same file with a longer Options.Duration
NewSession ==
  /\ pc = "idle"
  /\ Len(results) = 1
  /\ duration' \in (duration + 1)..MaxDur
  /\ size' = Len(file)
  /\ cursor' = Len(file)
  /\ fromTime' = now
  /\ offset' = 0
  /\ lb' = NewLineBuffer(bufSize)
  /\ UNCHANGED <<bufSize, stepsLimit, timeFromLastLine, env, pc, locals, reads, err,
                 results, out, reader, call, app>>

\* another process appends a line to the file between two FindPosition calls
Append1 ==
  /\ pc = "idle"
  /\ Len(results) = 1
  /\ Len(file) < MaxLen + MaxGrow
  /\ \E b \in FileBytes \ {NL} : file' = file \o <<b, NL>>
  /\ sink' = <<>> /\ copied' = -1 /\ reader' = NoReader
  /\ UNCHANGED <<opts, now, failAt, searcher, cursor, call, app>>

Next ==
  \/ FindPosition
  \/ findLastLineTime
  \/ BinarySearch
  \/ findTimeAtOffset
  \/ preciseNextLine
  \/ preciseReadLine
  \/ CopyTo

Spec == Init /\ [][Next]_vars

\* ------------------------------------------------ TimeParser, TSKV fast path
\* A TSKV line is a sequence of pieces of text: HT, KEY, a positive piece d (digits
\* in the shape the default pattern asks for, which the layout parses), BADTS
\* (digits in that shape which the layout rejects, like month 13).  A timestamp
\* is TsLen such pieces, and the time it parses to is the sequence of them.

\* the literal "\ttimestamp=" of parseTSKVFast
prefix == <<HT, KEY>>

\* time.ParseInLocation(layout, text): [ok, tm]
ParseInLocation(text) ==
  IF \A i \in 1..Len(text) : text[i] > 0
  THEN [ok |-> TRUE, tm |-> text]
  ELSE [ok |-> FALSE, tm |-> <<>>]

\* a result without a timestamp: time.Time{}, false
Absent == [ok |-> FALSE, tm |-> <<>>]

\* TimeParser.parseTSKVFast(line)
parseTSKVFast(line) ==
  LET hits == {i \in 0..(Len(line) - Len(prefix)) : Slice(line, i, i + Len(prefix)) = prefix}
      idx == IF hits = {} THEN -1
             ELSE (CHOOSE i \in hits : \A j \in hits : i <= j) + Len(prefix)
  IN  IF idx = -1 \/ idx + TsLen > Len(line) THEN Absent
      ELSE IF idx + TsLen >= Len(line) \/ line[idx + TsLen + 1] # HT THEN Absent
      ELSE ParseInLocation(Slice(line, idx, idx + TsLen))

\* the default pattern \ttimestamp=(\d{4}-...)\t matches the line at the offset i
MatchesAt(line, i) ==
  /\ i + Len(prefix) + TsLen + 1 <= Len(line)
  /\ Slice(line, i, i + Len(prefix)) = prefix
  /\ \A k \in 1..TsLen : IsMatch(line[i + Len(prefix) + k])
  /\ line[i + Len(prefix) + TsLen + 1] = HT

\* TimeParser.ParseTime's general path: the leftmost match of the pattern and
\* its first capture group parsed with the layout
FindSubmatchParse(line) ==
  LET hits == {i \in 0..Len(line) : MatchesAt(line, i)}
  IN  IF hits = {} THEN Absent
      ELSE LET i == CHOOSE x \in hits : \A y \in hits : x <= y
           IN  ParseInLocation(Slice(line, i + Len(prefix), i + Len(prefix) + TsLen))

\* TimeParser.ParseTime(line) of a parser for the default pattern and layout;
\* isTSKV: NewTimeParser recognised the pattern's text
TimeParser_ParseTime(isTSKV, line) ==
  IF isTSKV THEN parseTSKVFast(line) ELSE FindSubmatchParse(line)

\* the lines given to the parser
TskvLines == UNION {[1..n -> {HT, KEY, BADTS} \cup (1..MaxTime)] : n \in 0..MaxLineLen}

\* a caller of TimeParser.ParseTime(line)
CallParseTime ==
  /\ call = NoCall
  /\ \E line \in TskvLines, isTSKV \in BOOLEAN :
       call' = [fn |-> "ParseTime", line |-> line, isTSKV |-> isTSKV,
                result |-> TimeParser_ParseTime(isTSKV, line)]
  /\ UNCHANGED <<opts, env, searcher, out, cursor, reader, app>>

\* a session that makes no search: the state the functions outside a search start from
Standby ==
  /\ NewTimeSearcher({<<>>}, 1)
  /\ failAt = 0 /\ duration = 0 /\ stepsLimit = 1 /\ timeFromLastLine = FALSE
  /\ now = MaxTime

\* a parser for the default pattern and layout, given one line
ParserSpec == Standby /\ [][CallParseTime]_vars

\* ------------------------------------------------------------ configuration
\* A pattern's text is "" (not given), "ok" (compiles) or "bad" (does not
\* compile); a layout is "" (not given) or a layout's text.

\* the values of LogType
LogTypes ==
  [BufSize : {0, 4096}, StepsLimit : {0, 8}, TimeReStr : {"", "ok", "bad"},
   TimeLayout : {"", "file-layout"}]

\* BuiltinLogTypes: entries with a pattern and a layout only
BuiltinLogTypes ==
  [n \in {"tskv", "java"} |->
     [BufSize |-> 0, StepsLimit |-> 0, TimeReStr |-> "ok", TimeLayout |-> "builtin-layout"]]

\* DefaultOptions()
DefaultOptions ==
  [BufSize |-> 16384, StepsLimit |-> 1024, TimeRe |-> "default", TimeLayout |-> "default-layout"]

\* the config file: missing, not decodable, or a table of log types by name
ConfigFiles ==
  {[state |-> "missing"], [state |-> "undecodable"]}
    \cup {[state |-> "decoded", conf |-> c] :
            c \in UNION {[d -> LogTypes] : d \in SUBSET {"java", "custom"}}}

\* maps.Copy(dst, src) that keeps the entries dst already has
MapsCopyKeep(dst, src) ==
  [n \in DOMAIN dst \cup DOMAIN src |-> IF n \in DOMAIN dst THEN dst[n] ELSE src[n]]

\* maps.Copy(dst, src): dst after the call
MapsCopy(dst, src) ==
  [n \in DOMAIN dst \cup DOMAIN src |-> IF n \in DOMAIN src THEN src[n] ELSE dst[n]]

\* LoadConfig(configFile): [conf, err]
LoadConfig(f) ==
  IF f.state = "missing" THEN [conf |-> BuiltinLogTypes, err |-> "nil"]
  ELSE IF f.state = "undecodable" THEN [conf |-> <<>>, err |-> "decode"]
  ELSE [conf |-> MapsCopy(MapsCopy(<<>>, BuiltinLogTypes), f.conf), err |-> "nil"]

\* Config.GetLogTypeOptions(logType): [lt, err]
GetLogTypeOptions(c, logType) ==
  IF logType \in DOMAIN c THEN [lt |-> c[logType], err |-> "nil"]
  ELSE [lt |-> <<>>, err |-> "notfound"]

\* regexp.Compile(str): [re, err]
Compile(str) ==
  IF str = "bad" THEN [re |-> "none", err |-> "syntax"] ELSE [re |-> str, err |-> "nil"]

\* LogType.ApplyToOptions(opts): [opts, outcome], opts as the call leaves them
ApplyToOptions(lt, o) ==
  LET o1 == IF lt.BufSize # 0 THEN [o EXCEPT !.BufSize = lt.BufSize] ELSE o
      o2 == IF lt.StepsLimit # 0 THEN [o1 EXCEPT !.StepsLimit = lt.StepsLimit] ELSE o1
      c == Compile(lt.TimeReStr)
  IN  IF lt.TimeReStr # "" /\ c.err # "nil" THEN [opts |-> o2, outcome |-> "error"]
      ELSE LET o3 == IF lt.TimeReStr # "" THEN [o2 EXCEPT !.TimeRe = c.re] ELSE o2
               o4 == IF lt.TimeLayout # "" THEN [o3 EXCEPT !.TimeLayout = lt.TimeLayout] ELSE o3
           IN  [opts |-> o4, outcome |-> "nil"]

\* WithTimeReAsStr(timeRe): the option it returns, or the panic of
\* regexp.MustCompile
WithTimeReAsStr(timeRe) ==
  LET c == Compile(timeRe)
  IN  IF c.err # "nil" THEN [options |-> <<>>, outcome |-> "panic"]
      ELSE [options |-> <<[TimeRe |-> c.re]>>, outcome |-> "nil"]

\* OptionsFromConfig(logType, configPath): the options list, an error, or a panic
OptionsFromConfig(logType, f) ==
  LET l == LoadConfig(f)
      g == GetLogTypeOptions(l.conf, logType)
  IN  IF l.err # "nil" THEN [options |-> <<>>, outcome |-> "error"]
      ELSE IF g.err # "nil" THEN [options |-> <<>>, outcome |-> "error"]
      ELSE
      LET lt == g.lt
          a == IF lt.BufSize # 0 THEN <<[BufSize |-> lt.BufSize]>> ELSE <<>>
          b == IF lt.StepsLimit # 0 THEN <<[StepsLimit |-> lt.StepsLimit]>> ELSE <<>>
          w == WithTimeReAsStr(lt.TimeReStr)
          d == IF lt.TimeLayout # "" THEN <<[TimeLayout |-> lt.TimeLayout]>> ELSE <<>>
      IN  IF lt.TimeReStr # "" /\ w.outcome = "panic"
          THEN [options |-> <<>>, outcome |-> "panic"]
          ELSE [options |-> a \o b \o (IF lt.TimeReStr # "" THEN w.options ELSE <<>>) \o d,
                outcome |-> "nil"]

\* a caller of LoadConfig
CallLoadConfig ==
  /\ \E f \in ConfigFiles :
       call' = [fn |-> "LoadConfig", file |-> f, result |-> LoadConfig(f)]
  /\ UNCHANGED <<opts, env, searcher, out, cursor, reader, app>>

\* a caller of LogType.ApplyToOptions on the default options
CallApplyToOptions ==
  /\ \E lt \in LogTypes :
       call' = [fn |-> "ApplyToOptions", pattern |-> lt.TimeReStr,
                result |-> ApplyToOptions(lt, DefaultOptions)]
  /\ UNCHANGED <<opts, env, searcher, out, cursor, reader, app>>

\* a caller of WithTimeReAsStr
CallWithTimeReAsStr ==
  /\ \E re \in {"ok", "bad"} :
       call' = [fn |-> "WithTimeReAsStr", pattern |-> re, result |-> WithTimeReAsStr(re)]
  /\ UNCHANGED <<opts, env, searcher, out, cursor, reader, app>>

\* a caller of OptionsFromConfig
CallOptionsFromConfig ==
  /\ \E f \in ConfigFiles, logType \in {"tskv", "java", "custom"} :
       LET l == LoadConfig(f)
       IN  call' = [fn |-> "OptionsFromConfig",
                    pattern |-> IF l.err = "nil" /\ logType \in DOMAIN l.conf
                                THEN l.conf[logType].TimeReStr ELSE "",
                    result |-> OptionsFromConfig(logType, f)]
  /\ UNCHANGED <<opts, env, searcher, out, cursor, reader, app>>

\* a process resolving its configuration, before any search
ConfigSpec ==
  Standby /\ [][CallLoadConfig \/ CallApplyToOptions \/ CallWithTimeReAsStr
                  \/ CallOptionsFromConfig]_vars

\* ------------------------------------------------------- log type detection
\* A sample is what autoDetectLogType reads of a log file: "unreadable" when
\* os.Open or file.Read fails, else the lines strings.Split makes of the first
\* 4096 bytes. A line is "blank", "plain" (no pattern matches it) or "stamped"
\* (the pattern "ok" matches it). The builtin names of the model share the
\* pattern "ok", as java, mysql_general and rails share theirs in the source.
Samples ==
  {[state |-> "unreadable"]}
    \cup {[state |-> "read", lines |-> l] :
            l \in UNION {[1..n -> {"blank", "plain", "stamped"}] : n \in 1..MaxSampleLines}}

\* the config files of the detection runs: none, an undecodable one, or one that
\* defines at most the name custom, by its pattern only
DetectConfigFiles ==
  {f \in ConfigFiles :
     f.state = "decoded" =>
       /\ DOMAIN f.conf \subseteq {"custom"}
       /\ \A n \in DOMAIN f.conf :
            f.conf[n].BufSize = 0 /\ f.conf[n].StepsLimit = 0 /\ f.conf[n].TimeLayout = ""}

\* the orders in which a range loop can visit the keys of a map
RangeOrders(S) ==
  {s \in [1..Cardinality(S) -> S] : \A i, j \in 1..Cardinality(S) : i # j => s[i] # s[j]}

\* the orders in which autoDetectLogType can visit the log types of the config
Orders(f) ==
  IF LoadConfig(f).err # "nil" THEN {<<>>} ELSE RangeOrders(DOMAIN LoadConfig(f).conf)

\* re.MatchString(line)
MatchString(re, line) == re = "ok" /\ line = "stamped"

\* matchCount of autoDetectLogType: the lines among the first five that are not
\* blank and match
matchCount(re, lines) ==
  Cardinality({i \in 1..Min(Len(lines), 5) :
                 lines[i] # "blank" /\ MatchString(re, lines[i])})

\* the range loop of autoDetectLogType over the log types still to visit
RECURSIVE TestEach(_, _, _)
TestEach(conf, order, lines) ==
  IF order = <<>> THEN "tskv"
  ELSE LET logTypeName == Head(order)
           logType == conf[logTypeName]
           c == Compile(logType.TimeReStr)
       IN  IF logType.TimeReStr = "" \/ c.err # "nil"
           THEN TestEach(conf, Tail(order), lines)
           ELSE IF matchCount(c.re, lines) > 0 THEN logTypeName
           ELSE TestEach(conf, Tail(order), lines)

\* autoDetectLogType(filePath), the range loop visiting the log types in order
autoDetectLogType(sample, f, order) ==
  IF sample.state = "unreadable" THEN "tskv"
  ELSE IF LoadConfig(f).err # "nil" THEN "tskv"
  ELSE TestEach(LoadConfig(f).conf, order, sample.lines)

\* a first call of autoDetectLogType on a log file, with a config file
CallAutoDetectLogType ==
  /\ call.fn # "autoDetectLogType"
  /\ \E sample \in Samples, f \in DetectConfigFiles :
       \E order \in Orders(f) :
         call' = [fn |-> "autoDetectLogType", sample |-> sample, file |-> f,
                  result |-> autoDetectLogType(sample, f, order)]
  /\ UNCHANGED <<opts, env, searcher, out, cursor, reader, app>>

\* another call of autoDetectLogType on the same log file, with the same config
\* file
CallAgain ==
  /\ call.fn = "autoDetectLogType"
  /\ \E order \in Orders(call.file) :
       call' = [call EXCEPT !.result = autoDetectLogType(call.sample, call.file, order)]
  /\ UNCHANGED <<opts, env, searcher, out, cursor, reader, app>>

\* determineLogTypes detecting the types of the files named on the command line
DetectSpec == Standby /\ [][CallAutoDetectLogType \/ CallAgain]_vars

\* --------------------------------------------------------------------- TUI
\* app.logs are the Model's log files; app.cmds[i] the number of update commands
\* of file i in flight (tea.Batch runs them concurrently, each in a goroutine of
\* its own); app.msgs the logUpdateMsg messages not yet delivered to Update;
\* app.last the message Update handled last and the model it was given.
\* selectedFile and fileIndex count from 0 as in the source, app.logs from 1.

\* newModel(filePaths), followed by Init(): initLogFile fails for some files;
\* main exits before newModel when no file is named
newModel ==
  /\ app = NoApp
  /\ \E n \in 1..MaxFiles, opened \in [1..MaxFiles -> BOOLEAN] :
       LET logs == [i \in 1..n |->
                      [TFile |-> opened[i], Error |-> IF opened[i] THEN "" ELSE "open",
                       Lines |-> "none", IsExpanded |-> FALSE]]
       IN  app' = [logs |-> logs, selectedFile |-> 0,
                   cmds |-> [i \in 1..n |->
                               IF logs[i].TFile /\ logs[i].Error = "" THEN 1 ELSE 0],
                   msgs |-> {}, quit |-> FALSE, panic |-> FALSE,
                   last |-> [type |-> "none"]]
  /\ UNCHANGED <<opts, env, searcher, out, cursor, reader, call>>

\* the program runs: the model exists, tea.Quit was not returned, no panic
Running == app.logs # <<>> /\ ~app.quit /\ ~app.panic

\* what Update was given: the model's files and selection before the message
Before == [logs |-> app.logs, selectedFile |-> app.selectedFile]

\* Model.updateAllLogs(): the files it issues an update command for
updateAllLogs == {i \in 1..Len(app.logs) : app.logs[i].TFile /\ app.logs[i].Error = ""}

\* Model.Update(tickMsg)
UpdateTick ==
  /\ Running
  /\ \A i \in updateAllLogs : app.cmds[i] < MaxInFlight
  /\ app' = [app EXCEPT
               !.cmds = [i \in 1..Len(app.logs) |->
                           IF i \in updateAllLogs THEN app.cmds[i] + 1 ELSE app.cmds[i]],
               !.last = [type |-> "tick", before |-> Before]]
  /\ UNCHANGED <<opts, env, searcher, out, cursor, reader, call>>

\* the command of Model.updateLogFile(i, lf) runs: FindPosition, GetReader and
\* io.ReadAll succeed or one of them fails
updateLogFile ==
  /\ Running
  /\ \E i \in 1..Len(app.logs), failed \in BOOLEAN :
       /\ app.cmds[i] > 0
       /\ app' = [app EXCEPT !.cmds[i] = @ - 1,
                             !.msgs = app.msgs \cup {[fileIndex |-> i - 1, err |-> failed]}]
  /\ UNCHANGED <<opts, env, searcher, out, cursor, reader, call>>

\* logUpdateMsg values whose fileIndex is no index of m.logFiles
OutOfRange ==
  {[fileIndex |-> k, err |-> e] :
     k \in {-1} \cup (Len(app.logs)..MaxFiles), e \in BOOLEAN}

\* the logUpdateMsg case of Model.Update: the guard tests the upper end only, and
\* m.logFiles[msg.fileIndex] with a negative index is a run-time panic
logUpdate(msg) ==
  IF msg.fileIndex < Len(app.logs)
  THEN IF msg.fileIndex < 0
       THEN [app EXCEPT !.panic = TRUE]
       ELSE [app EXCEPT !.logs[msg.fileIndex + 1] =
                          IF msg.err THEN [@ EXCEPT !.Error = "update"]
                          ELSE [@ EXCEPT !.Error = "", !.Lines = "preview"]]
  ELSE app

\* Model.Update(logUpdateMsg): a message of an update command, or any other
\* value of the message type
UpdateLogUpdate ==
  /\ Running
  /\ \E msg \in app.msgs \cup OutOfRange :
       app' = [logUpdate(msg) EXCEPT
                 !.msgs = app.msgs \ {msg},
                 !.last = [type |-> "logUpdate", fileIndex |-> msg.fileIndex,
                           before |-> Before]]
  /\ UNCHANGED <<opts, env, searcher, out, cursor, reader, call>>

\* "enter" without the loop that closes all files first
ToggleSelected(logs, sel) ==
  [i \in 1..Len(logs) |->
     IF i = sel + 1 THEN [logs[i] EXCEPT !.IsExpanded = ~logs[i].IsExpanded]
     ELSE logs[i]]

\* the "enter", " " case of Model.Update: close all files, then expand the
\* selected one if it was not expanded
Toggle(logs, sel) ==
  IF sel < Len(logs)
  THEN [i \in 1..Len(logs) |->
          [logs[i] EXCEPT !.IsExpanded = i = sel + 1 /\ ~logs[i].IsExpanded]]
  ELSE logs

\* Model.Update(tea.KeyMsg)
UpdateKey ==
  /\ Running
  /\ \E key \in {"q", "up", "down", "enter"} :
       LET handled == [type |-> "key", key |-> key, before |-> Before]
       IN  CASE key = "q" -> app' = [app EXCEPT !.quit = TRUE, !.last = handled]
             [] key = "up" ->
                  app' = [app EXCEPT !.selectedFile = IF @ > 0 THEN @ - 1 ELSE @,
                                     !.last = handled]
             [] key = "down" ->
                  app' = [app EXCEPT
                            !.selectedFile = IF @ < Len(app.logs) - 1 THEN @ + 1 ELSE @,
                            !.last = handled]
             [] key = "enter" ->
                  app' = [app EXCEPT !.logs = Toggle(app.logs, app.selectedFile),
                                     !.last = handled]
  /\ UNCHANGED <<opts, env, searcher, out, cursor, reader, call>>

\* the TUI
TuiSpec ==
  Standby /\ [][newModel \/ UpdateTick \/ updateLogFile \/ UpdateLogUpdate \/ UpdateKey]_vars

\* a caller of LineBuffer.ReadLine(reader, o) on the session's buffer and file
CallReadLine ==
  /\ pc = "idle"
  /\ \E o \in 0..Len(file) :
       LET r == ReadLine(lb, file, o, bufSize, FALSE, FALSE)
       IN  /\ lb' = r.lb
           /\ call' = [fn |-> "ReadLine", offset |-> o, line |-> r.line, err |-> r.err,
                       nread |-> r.nread]
  /\ UNCHANGED <<opts, env, size, fromTime, offset, pc, locals, reads, err, results,
                 out, cursor, reader, app>>

\* a caller of LineBuffer.NextLine() on the session's buffer.  The call record
\* keeps the buffer as it was before the call, the operation called before it
\* (prev), whether every call since the last ReadLine returned a line (chained),
\* and that ReadLine's offset (base).
CallNextLine ==
  /\ pc = "idle"
  /\ LET r == NextLine(lb)
     IN  /\ lb' = r.lb
         /\ call' = [fn |-> "NextLine", before |-> lb, line |-> r.line, err |-> r.err,
                     prev |-> call.fn,
                     chained |-> /\ call.fn \in {"ReadLine", "NextLine"}
                                 /\ call.err = "nil"
                                 /\ call.fn = "NextLine" => call.chained,
                     base |-> IF call.fn = "ReadLine" THEN call.offset
                              ELSE IF call.fn = "NextLine" THEN call.base ELSE 0]
  /\ UNCHANGED <<opts, env, size, fromTime, offset, pc, locals, reads, err, results,
                 out, cursor, reader, app>>

\* a caller of LineBuffer.FindLastLine(reader, o) on the session's buffer and
\* file; window is what the call's ReadAt loaded
CallFindLastLine ==
  /\ pc = "idle"
  /\ \E o \in 0..Len(file) :
       LET r == FindLastLine(lb, file, o, FALSE)
       IN  /\ lb' = r.lb
           /\ call' = [fn |-> "FindLastLine", offset |-> o, line |-> r.line, err |-> r.err,
                       window |-> ReadAt(file, lb.len, o, FALSE).bytes]
  /\ UNCHANGED <<opts, env, size, fromTime, offset, pc, locals, reads, err, results,
                 out, cursor, reader, app>>

\* a caller of LineBuffer.Reset() on the session's buffer
CallReset ==
  /\ pc = "idle"
  /\ lb' = Reset(lb)
  /\ call' = [fn |-> "Reset"]
  /\ UNCHANGED <<opts, env, size, fromTime, offset, pc, locals, reads, err, results,
                 out, cursor, reader, app>>

\* the files read through a line buffer alone
BufFiles == UNION {[1..n -> {NL, TXT, 1}] : n \in 0..MaxBufFileLen}

\* a line buffer under any sequence of its operations on a file
BufferInit ==
  /\ NewTimeSearcher(BufFiles, MaxBufWindow)
  /\ failAt = 0 /\ duration = 0 /\ stepsLimit = 1 /\ timeFromLastLine = TRUE
BufferSpec ==
  BufferInit /\ [][CallReadLine \/ CallNextLine \/ CallFindLastLine \/ CallReset]_vars

\* a line buffer read at any offsets of a file
ReadLineInit ==
  /\ NewTimeSearcher(ShortFiles, MaxBuf)
  /\ failAt = 0 /\ duration = 0 /\ stepsLimit = 1 /\ timeFromLastLine = TRUE
ReadLineSpec == ReadLineInit /\ [][CallReadLine]_vars

\* sessions with different durations on one file, without read errors
DurInit == Init /\ failAt = 0 /\ duration = 0
DurSpec == DurInit /\ [][Next \/ NewSession]_vars

\* a session reading what it found, through CopyTo and GetReader
ReaderInit ==
  NewTimeSearcher(ShortFiles, MaxBuf) /\ failAt = 0 /\ duration = 0 /\ stepsLimit = 1
ReaderSpec == ReaderInit /\ [][Next \/ GetReader]_vars

\* a session on a file that grows between two calls
GrowInit == NewTimeSearcher(ShortFiles, MaxBuf) /\ failAt = 0 /\ duration = 0
GrowSpec == GrowInit /\ [][Next \/ Append1]_vars

\* every started step of a call is taken: the engine is a sequential program
FairSpec == NewTimeSearcher(LiveFiles, MaxLiveLen) /\ [][Next]_vars /\ WF_vars(Next)

\* ------------------------------------------------------- the claims' terms

\* the 0-based offsets at which the lines of f start
LineStarts(f) == {s \in 0..(Len(f) - 1) : s = 0 \/ f[s] = NL}

\* the line of f that starts at offset s is complete: a newline ends it
Complete(f, s) == \E e \in (s + 1)..Len(f) : f[e] = NL

\* the bytes of the line of f that starts at offset s, without its newline
LineAt(f, s) ==
  LET ends == {e \in (s + 1)..Len(f) : f[e] = NL}
      e == IF ends = {} THEN Len(f) + 1
           ELSE CHOOSE x \in ends : \A y \in ends : x <= y
  IN  SubSeq(f, s + 1, e - 1)

\* the line at s carries a timestamp that parses, and that timestamp
Stamped(f, s) == Parsed(ParseTime(LineAt(f, s)))
TimeAt(f, s) == ParseTime(LineAt(f, s)).tm

\* a FindPosition call has returned
Returned == pc = "idle" /\ results # <<>>

\* every line is newline-terminated, shorter than the window and stamped, in time order
WellFormed ==
  /\ file # <<>>
  /\ file[Len(file)] = NL
  /\ \A s \in LineStarts(file) : Stamped(file, s) /\ Len(LineAt(file, s)) + 1 < bufSize
  /\ \A s1, s2 \in LineStarts(file) : s1 < s2 => TimeAt(file, s1) <= TimeAt(file, s2)

\* the reference time T the specification names: the clock, or the last line's time
LastStart(f) == CHOOSE s \in LineStarts(f) : \A x \in LineStarts(f) : x <= s
RefTime == IF timeFromLastLine THEN TimeAt(file, LastStart(file)) ELSE now

\* the start of the first line of f that is at most d older than t, or the file size
CutOffset(f, t, d) ==
  LET inw == {s \in LineStarts(f) : Stamped(f, s) /\ t - TimeAt(f, s) <= d}
  IN  IF inw = {} THEN Len(f) ELSE CHOOSE s \in inw : \A x \in inw : s <= x

\* ------------------------------------------------------------------ claims

\* C1: on a well-formed file (newline-terminated, stamped, sorted lines shorter
\* than the window) FindPosition ends at the start of the first line with
\* T - t <= D, or at the file size when there is none.
C1_ExactCut ==
  (Returned /\ failAt = 0 /\ WellFormed) => (err = "nil" /\ offset = CutOffset(file, RefTime, duration))

\* C2: with lines at T-D-1s, T-D and T-D+1s and D >= 1s the result is the start
\* of the T-D line.
C2_File ==
  /\ Len(file) = 6
  /\ duration >= 1
  /\ RefTime - duration - 1 >= 1
  /\ file = StampedLines(<<RefTime - duration - 1, RefTime - duration, RefTime - duration + 1>>)
C2_BoundaryInclusion ==
  (Returned /\ failAt = 0 /\ C2_File /\ WellFormed) => (err = "nil" /\ offset = 2)

\* the timestamps of f, in file order, never decrease
SortedStamps(f) ==
  \A i, j \in 1..Len(f) : (i < j /\ f[i] > 0 /\ f[j] > 0) => f[i] <= f[j]

\* the reference time the search used
UsedRefTime == fromTime + duration

C4_Terminates == []<>(pc = "idle")

\* C5: a FindPosition call that returns success leaves 0 <= offset <= file size.
C5_OffsetInRange ==
  (Returned /\ err = "nil") => (0 <= offset /\ offset <= Len(file))

\* a successful search on a file with unsorted timestamps that ends inside the file
C5_Witness ==
  /\ Returned /\ err = "nil"
  /\ ~SortedStamps(file)
  /\ 0 < offset /\ offset < Len(file)

\* C6: when no read fails with an I/O error, FindPosition returns success.
C6_NoErrorWithoutIOError ==
  (Returned /\ failAt = 0) => err = "nil"

\* a successful search, past the start, of a file with a timestamp that the
\* layout rejects and without a newline at its end
C6_Witness ==
  /\ Returned /\ failAt = 0 /\ err = "nil"
  /\ reads > 0 /\ offset > 0
  /\ \E i \in 1..Len(file) : file[i] = BADTS
  /\ file[Len(file)] # NL

\* C7: on an empty file FindPosition succeeds with offset 0 and without a read,
\* and CopyTo writes nothing.
C7_EmptyFile ==
  file = <<>> =>
    /\ pc = "idle"
    /\ reads = 0
    /\ offset = 0
    /\ err = "nil"
    /\ copied \in {-1, 0}
    /\ sink = <<>>

\* an empty file after FindPosition and CopyTo
C7_Witness ==
  /\ file = <<>>
  /\ results # <<>>
  /\ copied = 0

\* no line of f has a timestamp that parses
NoTimestamps(f) == \A i \in 1..Len(f) : ~(f[i] > 0)

\* C8: on a non-empty file without a parseable timestamp FindPosition succeeds
\* with offset 0, so that CopyTo writes the whole file.
C8_NoTimestampFile ==
  (file # <<>> /\ NoTimestamps(file) /\ failAt = 0 /\ pc = "idle") =>
    /\ err = "nil"
    /\ offset = 0
    /\ copied # -1 => sink = file

\* the offsets of the last n windows of the file that the backward scan reads,
\* going back from offset o
RECURSIVE ScanWindows(_, _)
ScanWindows(o, n) ==
  IF n = 0 \/ o < 0 THEN {}
  ELSE {o} \cup ScanWindows(IF o > 0 /\ o < bufSize THEN 0 ELSE o - bufSize, n - 1)

\* the last complete line of a window w: the bytes before its last newline, back
\* to the newline before that or to the start of the window
WindowLastLine(w) ==
  LET nls == {i \in 1..Len(w) : w[i] = NL}
  IN  IF nls = {} THEN <<>>
      ELSE LET e == CHOOSE x \in nls : \A y \in nls : y <= x
               before == {i \in nls : i < e}
               b == IF before = {} THEN 0 ELSE CHOOSE x \in before : \A y \in before : y <= x
           IN  SubSeq(w, b + 1, e - 1)

\* the window of bufSize bytes at offset o yields a timestamp that parses
WindowYields(o) ==
  Parsed(ParseTime(WindowLastLine(Slice(file, o, Min(o + bufSize, Len(file))))))

\* none of the last stepsLimit windows of the file yields a timestamp
ScanExhausted ==
  \A o \in ScanWindows(Max(Len(file) - bufSize, 0), stepsLimit) : ~WindowYields(o)

\* C9: in from-last-line mode, when none of the last stepsLimit windows yields a
\* timestamp, FindPosition returns success with offset 0.
C9_StepsLimitExhaustion ==
  (Returned /\ timeFromLastLine /\ file # <<>> /\ ScanExhausted) =>
    (err = "nil" /\ offset = 0)

\* the scan gave up on a file that has a timestamped line before the windows it read
C9_Witness ==
  /\ Returned /\ timeFromLastLine /\ ScanExhausted /\ failAt = 0
  /\ bufSize >= 2 /\ Len(file) > bufSize * stepsLimit
  /\ \E s \in LineStarts(file) : Complete(file, s) /\ Stamped(file, s)
  /\ err = "nil" /\ offset = 0

\* C10: two FindPosition calls in a row on an unchanged session give the same offset.
C10_Idempotent ==
  Len(results) >= 2 => results[2].offset = results[1].offset

\* C11: for a fixed file and reference time, a search with a longer duration
\* never returns a larger offset than a search with a shorter one.
C11_MonotonicDuration ==
  (Len(results) = 2 /\ results[1].duration < results[2].duration
     /\ results[1].err = "nil" /\ results[2].err = "nil")
  => results[2].offset <= results[1].offset

\* C12: a FindPosition call in which a read failed with an I/O error returns
\* that error.
C12_IOErrorSurfaced ==
  (Returned /\ failAt # 0 /\ reads >= failAt) => err = "IOERR"

\* the bytes of the file from the stored offset to its end
Remaining == Slice(file, offset, Len(file))

\* C13: CopyTo writes the bytes of the file from the stored offset to the end
\* and returns their count; the reader of GetReader delivers the same bytes;
\* both hold wherever earlier calls left the file's cursor.
C13_CopyFromOffset ==
  (pc = "idle" /\ offset >= 0) =>
    /\ copied # -1 => (sink = Remaining /\ copied = Len(file) - offset)
    /\ reader.n # -1 => reader.bytes = SubSeq(Remaining, 1, Min(reader.n, Len(Remaining)))

\* after a search that ended inside the file, CopyTo has written the rest of the
\* file, leaving the cursor at its end, and GetReader's reader has then delivered
\* the first bytes of the same rest, leaving the cursor inside the file
C13_Witness ==
  /\ pc = "idle" /\ results # <<>>
  /\ 0 < offset /\ offset + 1 < Len(file)
  /\ copied = Len(file) - offset /\ sink = Remaining
  /\ reader.n = 1 /\ reader.bytes = <<file[offset + 1]>>
  /\ cursor = offset + 1

\* the offset of the first newline of f at or after the offset o, or -1
NewlineFrom(f, o) ==
  LET i == IndexByte(Slice(f, o, Len(f)), NL) IN IF i < 0 THEN -1 ELSE o + i

\* the start of the line that a read at the offset o is about: the offset itself
\* at the start of the file, else the byte after the first newline
ReadStart(f, o) == IF o = 0 THEN 0 ELSE NewlineFrom(f, o) + 1

\* ReadLine was called where the line it is about starts in the first window and
\* has its newline within 4 windows of the read offset
C14_Terminated ==
  /\ call.fn = "ReadLine"
  /\ call.offset = 0 \/ (NewlineFrom(file, call.offset) >= 0
                          /\ NewlineFrom(file, call.offset) - call.offset < bufSize)
  /\ ReadStart(file, call.offset) < Len(file)
  /\ NewlineFrom(file, ReadStart(file, call.offset)) >= 0
  /\ NewlineFrom(file, ReadStart(file, call.offset)) - call.offset < 4 * bufSize

\* C14: ReadLine returns the complete line, without its newline, whenever the
\* newline lies within 4 windows of the read offset.
C14_CompleteLineWithin4Windows ==
  C14_Terminated =>
    /\ call.err = "nil"
    /\ call.line = Slice(file, ReadStart(file, call.offset),
                         NewlineFrom(file, ReadStart(file, call.offset)))

\* C15: with the default pattern and layout the fast path of ParseTime gives,
\* for every line, the outcome and the timestamp of the compiled pattern's
\* leftmost match parsed with the layout.
C15_FastPathEquivalent ==
  (call.fn = "ParseTime" /\ call.isTSKV) => call.result = FindSubmatchParse(call.line)

\* C16: every FindPosition call searches the file at its current size: the
\* search interval starts as [0, current size] and the backward scan starts
\* one window before the current end of the file.
C16_UsesCurrentSize ==
  [][/\ (FindPosition /\ pc' = "coarse") => (up' = 0 /\ down' = Len(file))
     /\ (FindPosition /\ pc' = "lastline") => scanOff' = Max(Len(file) - bufSize, 0)
     /\ (findLastLineTime /\ pc' = "coarse") => (up' = 0 /\ down' = Len(file))]_vars

\* C17: resolving a format whose pattern does not compile returns an error to
\* the caller, through ApplyToOptions, OptionsFromConfig and WithTimeReAsStr.
C17_BadPatternIsError ==
  (call.fn \in {"ApplyToOptions", "OptionsFromConfig", "WithTimeReAsStr"}
     /\ call.pattern = "bad")
  => call.result.outcome = "error"

\* C18: LoadConfig returns the builtin table when the file is missing; from a
\* file that decodes it returns every builtin name and every name of the file,
\* with the file's whole entry for a name defined in both.
C18_LoadConfigMerge ==
  call.fn = "LoadConfig" =>
    /\ call.file.state = "missing" =>
         (call.result.err = "nil" /\ call.result.conf = BuiltinLogTypes)
    /\ call.file.state = "decoded" =>
         /\ call.result.err = "nil"
         /\ DOMAIN call.result.conf = DOMAIN BuiltinLogTypes \cup DOMAIN call.file.conf
         /\ \A n \in DOMAIN call.file.conf : call.result.conf[n] = call.file.conf[n]
         /\ \A n \in DOMAIN BuiltinLogTypes \ DOMAIN call.file.conf :
              call.result.conf[n] = BuiltinLogTypes[n]

\* LoadConfig read a file that defines the builtin name java without a layout
\* and the new name custom: java has the file's entry, with no layout
C18_Witness ==
  /\ call.fn = "LoadConfig"
  /\ call.file.state = "decoded"
  /\ DOMAIN call.file.conf = {"java", "custom"}
  /\ call.file.conf["java"].TimeLayout = ""
  /\ call.result.conf["java"].TimeLayout = ""
  /\ DOMAIN call.result.conf = {"tskv", "java", "custom"}

\* C19: every tick issues an update command for every log file the TUI opened,
\* also for a file whose last update reported an error.
C19_TickUpdatesEveryFile ==
  [][UpdateTick => \A i \in 1..Len(app.logs) :
                     app.logs[i].TFile => app'.cmds[i] > app.cmds[i]]_vars

\* C20: while a search is in its coarse or its refinement phase, the coarse phase
\* treats a timestamp t as too old exactly when the refinement phase does not
\* stop on a line with timestamp t, and exactly when T - t > D.
Searching == pc \in {"coarse", "probe", "refine", "refill"}
C20_SamePredicate ==
  Searching =>
    \A t \in 1..MaxTime :
      /\ TooOld(t) <=> ~InWindow(<<t>>)
      /\ TooOld(t) <=> (UsedRefTime - t > duration)

\* the probe of the coarse loop is at a place where its read reaches the end of
\* the data: no line was isolated and so no timestamp found
ProbeAtEndOfData ==
  pc = "probe" /\ ReadLine(lb, file, offset, bufSize, Fails(1), Fails(2)).err = "EOF"

\* C21: a coarse probe at mid that reaches the end of the data before a timestamp
\* sets high to mid, keeps low, and the binary search goes on.
C21_ProbeEndOfDataConverges ==
  [][(ProbeAtEndOfData /\ findTimeAtOffset)
       => (pc' = "coarse" /\ up' = up /\ down' = up + (down - up) \div 2)]_vars

\* the probe offset of an iteration of the coarse loop
Middle == up + (down - up) \div 2

\* C22: in the coarse loop 0 <= low <= high <= file size, every probe has
\* low < mid < high, every iteration makes high - low strictly smaller, and the
\* loop exits with high - low <= window size.
C22_CoarseInterval ==
  /\ [](Searching => (0 <= up /\ up <= down /\ down <= size))
  /\ [](pc = "probe" => (up < Middle /\ Middle < down))
  /\ [](pc \in {"refine", "refill"} => down - up <= bufSize)
  /\ [][(findTimeAtOffset /\ pc' = "coarse") => down' - up' < down - up]_vars

\* the coarse loop has exited after a probe that moved low up and a probe that
\* moved high down
C22_Witness ==
  /\ pc = "refine" /\ failAt = 0
  /\ 0 < up /\ down < size
  /\ down - up <= bufSize

\* the offset o of the file f is on a line boundary
LineBoundary(f, o) == o = 0 \/ o = Len(f) \/ (0 < o /\ o < Len(f) /\ f[o] = NL)

\* C23: a FindPosition call that succeeds leaves the offset on a line boundary:
\* 0, the file size, or the byte after a newline.
C23_OffsetOnLineBoundary ==
  (Returned /\ err = "nil") => LineBoundary(file, offset)

\* C24: the backward scan of the from-last-line mode makes at most stepsLimit
\* window reads, each at an offset that is not negative and not after the one
\* before, and stops after the last of them, with or without a timestamp.
C24_BoundedBackwardScan ==
  /\ [](pc = "lastline" => (scanOff >= 0 /\ reads < stepsLimit))
  /\ [][findLastLineTime =>
          /\ reads' = reads + 1
          /\ reads' <= stepsLimit
          /\ pc' = "lastline" => scanOff' <= scanOff
          /\ reads' = stepsLimit => pc' # "lastline"]_vars

\* the scan read stepsLimit windows of a longer file, going back, found no
\* timestamp in them and stopped
C24_Witness ==
  /\ Returned /\ timeFromLastLine /\ failAt = 0
  /\ stepsLimit = MaxSteps /\ reads = stepsLimit
  /\ Len(file) > bufSize * stepsLimit
  /\ scanOff < Len(file) - bufSize * stepsLimit
  /\ err = "nil" /\ offset = 0

\* the starts of the complete lines of the file's last window that carry a
\* timestamp that parses, and the last of them
LastWindowStamped ==
  {s \in LineStarts(file) :
     s >= Max(Len(file) - bufSize, 0) /\ Complete(file, s) /\ Stamped(file, s)}
LastStampedStart == CHOOSE s \in LastWindowStamped : \A x \in LastWindowStamped : x <= s

\* C25: in from-last-line mode, when the last window of the file has a complete
\* line with a timestamp, the backward scan ends with the reference time T set to
\* the timestamp of the last such line, whatever lines follow it in the window.
C25_LastStampedLineIsReference ==
  [][(findLastLineTime /\ pc' # "lastline" /\ failAt = 0 /\ LastWindowStamped # {})
       => (pc' = "coarse" /\ fromTime' + duration = TimeAt(file, LastStampedStart))]_vars

\* C26: after every operation of the line buffer, outside the discard state,
\* lineStart <= lineEnd <= len(data), and lineStart is negative only as the
\* sentinel -1.
C26_ReadWindowInvariant ==
  (call # NoCall /\ ~lb.discard) =>
    /\ lb.lineStart >= -1
    /\ lb.lineStart <= lb.lineEnd
    /\ lb.lineEnd <= lb.len

\* C27: after any sequence of operations the buffer holds at most 4 windows of
\* bytes, and one ReadLine call reads at most 4 windows of bytes from the source.
C27_BoundedBuffer ==
  call # NoCall =>
    /\ lb.len <= 4 * bufSize
    /\ call.fn = "ReadLine" => call.nread <= 4 * bufSize

\* ReadLine at the start of a file without a newline and longer than two
\* windows: it extended the buffer and returned what it had loaded
C27_Witness ==
  /\ call.fn = "ReadLine" /\ call.offset = 0
  /\ \A i \in 1..Len(file) : file[i] # NL
  /\ Len(file) > 2 * bufSize
  /\ call.nread = 2 * bufSize /\ lb.len = 2 * bufSize
  /\ call.err = "nil" /\ Len(call.line) = 2 * bufSize

\* the window that a read at the offset o loads, and the index in it of its
\* first newline, or -1
WindowAt(o) == Slice(file, Min(o, Len(file)), Min(o + bufSize, Len(file)))
FirstNewline(o) == IndexByte(WindowAt(o), NL)

\* C28: ReadLine at offset 0 returns a line that starts at the first byte of the
\* window; at an offset > 0 it returns the bytes between the first newline of the
\* window and the next newline (which the reader promises to reach within 4
\* windows), and EndOfData when the window has no newline.
C28_ReadLineStart ==
  call.fn = "ReadLine" =>
    LET o == call.offset
        s == o + FirstNewline(o) + 1
        q == NewlineFrom(file, s)
    IN  /\ (o = 0 /\ call.err = "nil") => call.line = Slice(file, 0, Len(call.line))
        /\ (o > 0 /\ FirstNewline(o) >= 0 /\ call.err = "nil"
              /\ q >= 0 /\ q - o < 4 * bufSize)
             => call.line = Slice(file, s, q)
        /\ (o > 0 /\ FirstNewline(o) < 0) => call.err = "EOF"

\* C29: a NextLine call that follows a successful ReadLine, directly or after
\* NextLine calls that each returned a line, returns the next newline-terminated
\* line of the loaded bytes, an empty one included, which is the next line of the
\* file; it returns EndOfData only when no further newline is loaded.
C29_NextLineSequence ==
  (call.fn = "NextLine" /\ call.chained) =>
    LET d == Data(call.before)
        from == call.before.lineEnd + 1
        nl == NewlineFrom(d, from)
    IN  IF ~call.before.discard /\ nl >= 0
        THEN /\ call.err = "nil"
             /\ call.line = Slice(d, from, nl)
             /\ call.line = Slice(file, call.base + from, call.base + nl)
        ELSE call.err = "EOF"

\* the 1-based positions of the newlines of w, and the largest position of a set
Newlines(w) == {i \in 1..Len(w) : w[i] = NL}
Last(S) == CHOOSE x \in S : \A y \in S : y <= x

\* C30: FindLastLine returns a line exactly when the window it loaded has at
\* least two newlines, and then the bytes between the second-to-last and the
\* last of them; with fewer newlines it returns EndOfData.
C30_FindLastLine ==
  call.fn = "FindLastLine" =>
    LET nls == Newlines(call.window)
    IN  IF Cardinality(nls) >= 2
        THEN /\ call.err = "nil"
             /\ call.line = SubSeq(call.window, Last(nls \ {Last(nls)}) + 1, Last(nls) - 1)
        ELSE call.err = "EOF"

\* C31: Reset leaves lineStart = -1, lineEnd = 0 and discard set; a NextLine
\* call on a buffer in the discard state returns EndOfData and changes nothing;
\* the discard state ends only with a ReadLine call that loads data.
C31_ResetThenNextLine ==
  /\ [](call.fn = "Reset" => (lb.lineStart = -1 /\ lb.lineEnd = 0 /\ lb.discard))
  /\ []((call.fn = "NextLine" /\ call.before.discard)
          => (call.err = "EOF" /\ lb = call.before))
  /\ [][(lb.discard /\ ~lb'.discard) => (call'.fn = "ReadLine" /\ call'.nread > 0)]_vars

\* NextLine right after a Reset of a buffer that holds a further line: without
\* the discard state the call would have returned that line
C31_Witness ==
  /\ call.fn = "NextLine" /\ call.prev = "Reset"
  /\ call.before.lineStart = -1 /\ call.before.lineEnd = 0
  /\ NewlineFrom(Data(call.before), 1) >= 2
  /\ call.err = "EOF" /\ lb = call.before

\* C32: in the TUI at most one search is in progress per log file: no tick and no
\* Init starts an update command (FindPosition, GetReader) for a file while an
\* earlier update command of the same file is still running.
C32_OneUpdateInFlight ==
  /\ [](\A i \in 1..Len(app.logs) : app.cmds[i] <= 1)
  /\ [][UpdateTick => \A i \in 1..Len(app.logs) :
                        app'.cmds[i] > app.cmds[i] => app.cmds[i] = 0]_vars

\* the offset the last successful search before the i-th left, 0 if there is none
LastFound(i) ==
  LET good == {j \in 1..(i - 1) : results[j].err = "nil"}
  IN  IF good = {} THEN 0 ELSE results[Last(good)].offset

\* C33: when FindPosition returns an error, the stored offset is still the result
\* of the last successful search, or 0 if there was none: a failed search leaves
\* no offset of one of its probes behind.
C33_FailedSearchKeepsOffset ==
  \A i \in 1..Len(results) :
    results[i].err # "nil" => results[i].offset = LastFound(i)

\* C34: when LogType.ApplyToOptions returns an error (the pattern does not
\* compile), the options are exactly as before the call: no field, BufSize and
\* StepsLimit included, was overridden.
C34_FailedApplyKeepsOptions ==
  (call.fn = "ApplyToOptions" /\ call.result.outcome = "error")
    => call.result.opts = DefaultOptions

\* Update was last given the key k
LastKey(k) == app.last.type = "key" /\ app.last.key = k

\* the selection is the index of one of the log files
SelectionInRange ==
  app.logs # <<>> => (0 <= app.selectedFile /\ app.selectedFile <= Len(app.logs) - 1)

\* "up" at the first file and "down" at the last file leave the selection as it was
SelectionStopsAtEnds ==
  /\ (LastKey("up") /\ app.last.before.selectedFile = 0) => app.selectedFile = 0
  /\ (LastKey("down") /\ app.last.before.selectedFile = Len(app.logs) - 1)
       => app.selectedFile = Len(app.logs) - 1

\* a logUpdateMsg whose fileIndex is no index of the log files changes nothing
\* but the record of the last message
StrayUpdateIgnored ==
  \A msg \in OutOfRange :
    (app'.last = [type |-> "logUpdate", fileIndex |-> msg.fileIndex, before |-> Before]
       /\ app' # app)
    => app' = [app EXCEPT !.last = app'.last]

Expanded(logs) == {i \in 1..Len(logs) : logs[i].IsExpanded}

\* C36: in the TUI at most one log file is expanded at any time; Enter/Space on
\* the selected file collapses every other file and toggles the selected one;
\* the navigation keys never change which file is expanded.
C36_OneExpandedFile ==
  /\ Cardinality(Expanded(app.logs)) <= 1
  /\ LastKey("enter") =>
       Expanded(app.logs) =
         {app.last.before.selectedFile + 1} \ Expanded(app.last.before.logs)
  /\ (LastKey("up") \/ LastKey("down")) =>
       Expanded(app.logs) = Expanded(app.last.before.logs)

\* Enter on the second file while the first was expanded: the first is collapsed
\* and the second expanded
C36_Witness ==
  /\ LastKey("enter")
  /\ app.last.before.selectedFile = 1
  /\ Expanded(app.last.before.logs) = {1}
  /\ Expanded(app.logs) = {2}

\* C37: autoDetectLogType is deterministic: for the same file content and the
\* same configuration it returns the same log type name on every call, also when
\* the first lines match the patterns of several log types.
C37_DetectionDeterministic ==
  [][(call.fn = "autoDetectLogType" /\ call'.fn = "autoDetectLogType"
        /\ call'.sample = call.sample /\ call'.file = call.file)
       => call'.result = call.result]_vars

\* what FindLastLine returns at offset o on a buffer no call has used yet
FreshLastLine(o) == FindLastLine(NewLineBuffer(bufSize), file, o, FALSE)

\* C38: the result of FindLastLine depends only on the source's content, the
\* offset and the configured window size: it examines min(window size, file size
\* - offset) bytes at the offset, whatever ReadLine, NextLine and FindLastLine
\* calls came before it on the same buffer.
C38_FindLastLineWindow ==
  call.fn = "FindLastLine" =>
    /\ call.window = WindowAt(call.offset)
    /\ call.line = FreshLastLine(call.offset).line
    /\ call.err = FreshLastLine(call.offset).err
====
